---------------------------- MODULE Spec2Model ----------------------------
(***************************************************************************)
(* Model of lab_6_pipeline/pipeline.py: CorpusManager (validation and      *)
(* loading of the corpus directory), the Mystem and OpenCorpora tag        *)
(* converters, the ConlluToken / ConlluSentence model and                  *)
(* MorphologicalAnalysisPipeline (_process, run, main).                    *)
(*                                                                         *)
(* Representation of Python strings.  A str is a sequence of atoms.  An    *)
(* atom is a TLA+ string standing for one character ("2", ".", " ",        *)
(* "\t", ...) or for an indivisible run of letters that the code only      *)
(* ever copies or compares whole ("NOUN", "Case", "Nom", "sent_id").       *)
(* The module is ASCII, so a Cyrillic letter is written "cyr_x".           *)
(***************************************************************************)
EXTENDS Integers, Sequences, FiniteSets, TLC

(***************************************************************************)
(* Bounds of the model.                                                    *)
(***************************************************************************)
\* largest article id a file of the directory may carry
MaxId == 4
\* largest number of grammeme codes in one generated Mystem tag string
MaxFeats == 2
\* largest number of analyzer tokens in one generated sentence
MaxToks == 2
\* largest number of sentences in one generated article
MaxSents == 2

(***************************************************************************)
(* Characters and the character classes the code's predicates use.         *)
(***************************************************************************)
\* lowercase Cyrillic letters of the range [а-я]
CyrLower == {"cyr_i", "cyr_m", "cyr_e", "cyr_d", "cyr_n", "cyr_o", "cyr_r",
             "cyr_zh", "cyr_p", "cyr_sh"}
\* a lowercase Cyrillic letter outside [а-я]
CyrYo == "cyr_yo"
\* an uppercase Cyrillic letter
CyrUpper == {"cyr_K"}
\* ASCII uppercase letters, the range [A-Z]
LatinUpper == {"A", "D", "M", "N", "O", "P", "Q", "R", "S", "U", "V"}
Digits == {"0", "1", "2", "3", "4", "5", "6", "7", "8", "9"}
\* str.isalpha() of one character
IsAlphaChar(c) == c \in CyrLower \cup CyrUpper \cup LatinUpper \cup {CyrYo}
\* str.isdigit() of one character
IsDigitChar(c) == c \in Digits
\* the regular expression class \w of one character
IsWordChar(c) == IsAlphaChar(c) \/ IsDigitChar(c) \/ c = "_"

(***************************************************************************)
(* String helpers: the re and str calls of the converters.                 *)
(***************************************************************************)
\* the longest prefix of s whose characters are all in Class
RECURSIVE TakeRun(_, _)
TakeRun(s, Class) ==
    IF s = <<>> \/ Head(s) \notin Class THEN <<>>
    ELSE <<Head(s)>> \o TakeRun(Tail(s), Class)

\* s without its first n characters
DropN(s, n) == SubSeq(s, n + 1, Len(s))

\* re.findall('[Class]+', s): the maximal runs, left to right
RECURSIVE FindAllRuns(_, _)
FindAllRuns(s, Class) ==
    IF s = <<>> THEN <<>>
    ELSE IF Head(s) \in Class
         THEN LET run == TakeRun(s, Class)
              IN  <<run>> \o FindAllRuns(DropN(s, Len(run)), Class)
         ELSE FindAllRuns(Tail(s), Class)

\* re.search('[Class]+', s): the first maximal run, <<>> for no match
SearchRun(s, Class) ==
    LET runs == FindAllRuns(s, Class)
    IN  IF runs = <<>> THEN <<>> ELSE runs[1]

\* s.replace(c, '')
RECURSIVE RemoveChar(_, _)
RemoveChar(s, c) ==
    IF s = <<>> THEN <<>>
    ELSE IF Head(s) = c THEN RemoveChar(Tail(s), c)
         ELSE <<Head(s)>> \o RemoveChar(Tail(s), c)

\* s.split(c)[0]
RECURSIVE BeforeFirst(_, _)
BeforeFirst(s, c) ==
    IF s = <<>> \/ Head(s) = c THEN <<>>
    ELSE <<Head(s)>> \o BeforeFirst(Tail(s), c)

\* sep.join(parts)
RECURSIVE Join(_, _)
Join(sep, parts) ==
    IF parts = <<>> THEN <<>>
    ELSE IF Len(parts) = 1 THEN parts[1]
         ELSE parts[1] \o sep \o Join(sep, Tail(parts))


(***************************************************************************)
(* Tag mapping tables.  The JSON files the converters load are data, not   *)
(* code: a table is a function from a category name to a function from    *)
(* an analyzer code to the normalized value, and the model runs the        *)
(* converters over several tables.                                         *)
(***************************************************************************)
\* the category names, the class attributes of TagConverter
CatPos == "POS"
CatCase == "Case"
CatNumber == "Number"
CatGender == "Gender"
CatAnimacy == "Animacy"
CatTense == "Tense"

\* a one-atom string
W(a) == <<a>>

\* Mystem grammeme codes
cIm == <<"cyr_i", "cyr_m">>
cRod == <<"cyr_r", "cyr_o", "cyr_d">>
cEd == <<"cyr_e", "cyr_d">>
cMn == <<"cyr_m", "cyr_n">>
cZhen == <<"cyr_zh", "cyr_e", "cyr_n">>
cOd == <<"cyr_o", "cyr_d">>
cProsh == <<"cyr_p", "cyr_r", "cyr_o", "cyr_sh">>
\* a code no table lists; its middle letter is outside [а-я]
cMyod == <<"cyr_m", CyrYo, "cyr_d">>
\* Mystem part-of-speech codes
pS == <<"S">>
pV == <<"V">>
pA == <<"A">>
pNUM == <<"N", "U", "M">>
pSPRO == <<"S", "P", "R", "O">>
pADV == <<"A", "D", "V">>
pQ == <<"Q">>

MystemPosTable ==
    (pS :> W("NOUN")) @@ (pV :> W("VERB")) @@ (pA :> W("ADJ")) @@
    (pNUM :> W("NUM")) @@ (pSPRO :> W("PRON")) @@ (pADV :> W("ADV"))

\* a table in which every code belongs to one category
MystemTableA ==
    [c \in {CatPos, CatCase, CatNumber, CatGender, CatAnimacy, CatTense} |->
        CASE c = CatPos -> MystemPosTable
          [] c = CatCase -> (cIm :> W("Nom")) @@ (cRod :> W("Gen"))
          [] c = CatNumber -> (cEd :> W("Sing")) @@ (cMn :> W("Plur"))
          [] c = CatGender -> (cZhen :> W("Fem"))
          [] c = CatAnimacy -> (cOd :> W("Anim"))
          [] c = CatTense -> (cProsh :> W("Past"))]

\* a table in which the code cEd is listed under two categories
MystemTableB ==
    [MystemTableA EXCEPT ![CatCase] = @ @@ (cEd :> W("Loc"))]

MystemTables == {MystemTableA, MystemTableB}

\* the attribute names OpenCorporaTagConverter reads
OcAttrs == <<"case", "number", "gender", "animacy">>

OcPosTable ==
    (W("NOUN") :> W("NOUN")) @@ (W("VERB") :> W("VERB")) @@ (W("UNKN") :> W("X"))

\* a table keyed by the attribute names
OcTableLower ==
    [c \in {CatPos, "case", "number", "gender", "animacy"} |->
        CASE c = CatPos -> OcPosTable
          [] c = "case" -> (W("nomn") :> W("Nom")) @@ (W("gent") :> W("Gen"))
          [] c = "number" -> (W("sing") :> W("Sing"))
          [] c = "gender" -> (W("femn") :> W("Fem"))
          [] c = "animacy" -> (W("anim") :> W("Anim"))]

\* a table keyed by the category names of TagConverter
OcTableUpper ==
    [c \in {CatPos, CatCase, CatNumber, CatGender, CatAnimacy} |->
        CASE c = CatPos -> OcPosTable
          [] c = CatCase -> (W("nomn") :> W("Nom")) @@ (W("gent") :> W("Gen"))
          [] c = CatNumber -> (W("sing") :> W("Sing"))
          [] c = CatGender -> (W("femn") :> W("Fem"))
          [] c = CatAnimacy -> (W("anim") :> W("Anim"))]

\* a table with the attribute names, lacking the gender and animacy sub-tables
OcTablePartial ==
    [c \in {CatPos, "case", "number"} |->
        CASE c = CatPos -> OcPosTable
          [] c = "case" -> (W("nomn") :> W("Nom"))
          [] c = "number" -> (W("sing") :> W("Sing")) @@ (W("plur") :> W("Plur"))]

OcTables == {OcTableLower, OcTableUpper, OcTablePartial}

(***************************************************************************)
(* Results of a call: a returned str, or the exception that propagated.    *)
(***************************************************************************)
Returned(v) == [err |-> "none", val |-> v]
Raised(e) == [err |-> e, val |-> <<>>]

(***************************************************************************)
(* MystemTagConverter                                                      *)
(***************************************************************************)
\* convert_pos: the first [A-Z]+ run, looked up in the POS sub-table
MystemConvertPos(mapping, tags) ==
    LET pos_match == SearchRun(tags, LatinUpper)
    IN  IF pos_match # <<>> /\ pos_match \in DOMAIN mapping[CatPos]
        THEN mapping[CatPos][pos_match]
        ELSE <<>>

\* the dictionary pos_specific_categories
PosSpecificCategories ==
    (W("NOUN") :> <<CatCase, CatNumber, CatGender, CatAnimacy>>) @@
    (W("VERB") :> <<CatTense, CatNumber, CatGender>>) @@
    (W("ADJ") :> <<CatCase, CatNumber, CatGender>>) @@
    (W("NUM") :> <<CatCase, CatNumber, CatGender>>) @@
    (W("PRON") :> <<CatCase, CatNumber, CatGender, CatAnimacy>>)

\* re.findall(r'[а-я]+', tags.replace('(', '').replace(')', '').split('|')[0])
ExtractTags(tags) ==
    FindAllRuns(BeforeFirst(RemoveChar(RemoveChar(tags, "("), ")"), "|"), CyrLower)

\* the (key, value) pairs the dict comprehension produces for one category,
\* in the order of the extracted tags
RECURSIVE CategoryPairs(_, _, _)
CategoryPairs(mapping, category, extracted) ==
    IF extracted = <<>> THEN <<>>
    ELSE (IF Head(extracted) \in DOMAIN mapping[category]
          THEN << <<category, mapping[category][Head(extracted)]>> >>
          ELSE <<>>)
         \o CategoryPairs(mapping, category, Tail(extracted))

\* the pairs of the whole comprehension: for category ... for tag ... if ...
RECURSIVE ComprehensionPairs(_, _, _)
ComprehensionPairs(mapping, categories, extracted) ==
    IF categories = <<>> THEN <<>>
    ELSE CategoryPairs(mapping, Head(categories), extracted)
         \o ComprehensionPairs(mapping, Tail(categories), extracted)

\* a dict built from pairs: a later pair replaces an earlier one with its key
RECURSIVE DictOf(_)
DictOf(pairs) ==
    IF pairs = <<>> THEN << >>
    ELSE LET last == pairs[Len(pairs)]
             rest == DictOf(SubSeq(pairs, 1, Len(pairs) - 1))
         IN  (last[1] :> last[2]) @@ rest

\* the order of Python's str comparison on the category names
StrRank(name) ==
    CASE name = CatAnimacy -> 1
      [] name = CatCase -> 2
      [] name = CatGender -> 3
      [] name = CatNumber -> 4
      [] name = CatPos -> 5
      [] name = CatTense -> 6

\* a faulty variant of SortedItems: the items in descending order of the keys
RECURSIVE SortedItemsReversed(_)
SortedItemsReversed(dict) ==
    IF DOMAIN dict = {} THEN <<>>
    ELSE LET greatest == CHOOSE k \in DOMAIN dict :
                             \A j \in DOMAIN dict : StrRank(k) >= StrRank(j)
             others == [k \in DOMAIN dict \ {greatest} |-> dict[k]]
         IN  << <<greatest, dict[greatest]>> >> \o SortedItemsReversed(others)

\* sorted(ud_tags.items())
RECURSIVE SortedItems(_)
SortedItems(dict) ==
    IF DOMAIN dict = {} THEN <<>>
    ELSE LET least == CHOOSE k \in DOMAIN dict :
                          \A j \in DOMAIN dict : StrRank(k) <= StrRank(j)
             others == [k \in DOMAIN dict \ {least} |-> dict[k]]
         IN  << <<least, dict[least]>> >> \o SortedItems(others)

\* f'{category}={value}' of each item
RECURSIVE FormatItems(_)
FormatItems(items) ==
    IF items = <<>> THEN <<>>
    ELSE << <<Head(items)[1], "=">> \o Head(items)[2] >> \o FormatItems(Tail(items))

\* convert_morphological_tags
MystemConvertMorphologicalTags(mapping, tags) ==
    LET pos == MystemConvertPos(mapping, tags)
        extracted_tags == ExtractTags(tags)
    IN  IF pos \notin DOMAIN PosSpecificCategories
        THEN Raised("KeyError")
        ELSE LET ud_tags == DictOf(ComprehensionPairs(
                                mapping, PosSpecificCategories[pos], extracted_tags))
             IN  Returned(Join(<<"|">>, FormatItems(SortedItems(ud_tags))))

(***************************************************************************)
(* OpenCorporaTagConverter                                                 *)
(***************************************************************************)
\* an attribute that is None or missing reads as the empty (falsy) value
NoneValue == <<>>

\* convert_pos
OcConvertPos(mapping, tags) ==
    LET key == IF tags.POS # NoneValue THEN tags.POS ELSE W("UNKN")
    IN  IF key \in DOMAIN mapping[CatPos]
        THEN Returned(mapping[CatPos][key])
        ELSE Raised("KeyError")

\* self._tag_mapping.get(category, {})
GetSubTable(mapping, category) ==
    IF category \in DOMAIN mapping THEN mapping[category] ELSE << >>

\* the loop over parsed_tags.items(), attribute by attribute
RECURSIVE OcTagsList(_, _, _)
OcTagsList(mapping, tags, attrs) ==
    IF attrs = <<>> THEN <<>>
    ELSE LET category == Head(attrs)
             value == tags[category]
         IN  (IF value # NoneValue /\ value \in DOMAIN GetSubTable(mapping, category)
              THEN << <<category, "=">> \o mapping[category][value] >>
              ELSE <<>>)
             \o OcTagsList(mapping, tags, Tail(attrs))

\* convert_morphological_tags
OcConvertMorphologicalTags(mapping, tags) ==
    Returned(Join(<<"|">>, OcTagsList(mapping, tags, OcAttrs)))

(***************************************************************************)
(* ConlluToken, ConlluSentence                                             *)
(***************************************************************************)
\* MorphologicalTokenDTO(lemma, pos, tags)
MorphologicalTokenDTO(lemma, pos, tags) == [lemma |-> lemma, pos |-> pos, tags |-> tags]

\* ConlluToken(text) followed by set_position and set_morphological_parameters
ConlluToken(text, position, parameters) ==
    [text |-> text, position |-> position, params |-> parameters]

\* ConlluSentence(position, text, tokens)
ConlluSentence(position, text, tokens) ==
    [position |-> position, text |-> text, tokens |-> tokens]

\* str(n) of a non-negative integer
DigitChar(d) ==
    CASE d = 0 -> "0" [] d = 1 -> "1" [] d = 2 -> "2" [] d = 3 -> "3" [] d = 4 -> "4"
      [] d = 5 -> "5" [] d = 6 -> "6" [] d = 7 -> "7" [] d = 8 -> "8" [] d = 9 -> "9"

RECURSIVE StrOfInt(_)
StrOfInt(n) ==
    IF n < 10 THEN <<DigitChar(n)>>
    ELSE StrOfInt(n \div 10) \o <<DigitChar(n % 10)>>

\* a faulty variant of TokenConlluText: the flag include_morphological_tags ignored
TokenConlluTextAlwaysTags(token, include_morphological_tags) ==
    Join(<<"\t">>, <<StrOfInt(token.position), token.text, token.params.lemma,
                     token.params.pos, <<"_">>,
                     IF token.params.tags # <<>> THEN token.params.tags ELSE <<"_">>,
                     <<"0">>, <<"root">>, <<"_">>, <<"_">> >>)

\* ConlluToken.get_conllu_text
TokenConlluText(token, include_morphological_tags) ==
    LET position == StrOfInt(token.position)
        text == token.text
        lemma == token.params.lemma
        pos == token.params.pos
        xpos == <<"_">>
        feats == IF include_morphological_tags /\ token.params.tags # <<>>
                 THEN token.params.tags ELSE <<"_">>
        head == <<"0">>
        deprel == <<"root">>
        deps == <<"_">>
        misc == <<"_">>
    IN  Join(<<"\t">>, <<position, text, lemma, pos, xpos, feats, head, deprel, deps, misc>>)

\* the list conllu_tokens of ConlluSentence.get_conllu_text
RECURSIVE TokenLines(_, _)
TokenLines(tokens, include_morphological_tags) ==
    IF tokens = <<>> THEN <<>>
    ELSE <<TokenConlluText(Head(tokens), include_morphological_tags)>>
         \o TokenLines(Tail(tokens), include_morphological_tags)

\* a faulty variant of SentenceConlluText: one more line break after the one
\* that closes the last line
SentenceConlluTextBlankLine(sentence, include_morphological_tags) ==
    <<"#", " ", "sent_id", " ", "=", " ">> \o StrOfInt(sentence.position) \o <<"\n">>
    \o <<"#", " ", "text", " ", "=", " ">> \o sentence.text \o <<"\n">>
    \o Join(<<"\n">>, TokenLines(sentence.tokens, include_morphological_tags))
    \o <<"\n", "\n">>

\* ConlluSentence.get_conllu_text
SentenceConlluText(sentence, include_morphological_tags) ==
    <<"#", " ", "sent_id", " ", "=", " ">> \o StrOfInt(sentence.position) \o <<"\n">>
    \o <<"#", " ", "text", " ", "=", " ">> \o sentence.text \o <<"\n">>
    \o Join(<<"\n">>, TokenLines(sentence.tokens, include_morphological_tags))
    \o <<"\n">>

(***************************************************************************)
(* MorphologicalAnalysisPipeline._process                                  *)
(***************************************************************************)
\* word_regex.match(text) for word_regex = r'\w+|[.]': a match at the start
WordRegexMatch(text) ==
    text # <<>> /\ (IsWordChar(text[1]) \/ text[1] = ".")

\* text.endswith('. ')
EndsWithPeriodSpace(text) ==
    Len(text) >= 2 /\ text[Len(text) - 1] = "." /\ text[Len(text)] = " "

\* text.replace('. ', '.')
RECURSIVE ReplacePeriodSpace(_)
ReplacePeriodSpace(text) ==
    IF text = <<>> THEN <<>>
    ELSE IF Len(text) >= 2 /\ text[1] = "." /\ text[2] = " "
         THEN <<".">> \o ReplacePeriodSpace(DropN(text, 2))
         ELSE <<Head(text)>> \o ReplacePeriodSpace(Tail(text))

\* str.isalpha()
IsAlpha(text) == text # <<>> /\ \A i \in DOMAIN text : IsAlphaChar(text[i])

\* str.isdigit()
IsDigit(text) == text # <<>> /\ \A i \in DOMAIN text : IsDigitChar(text[i])

\* the token text after the '. ' fix of lines 296-297
FixedText(text) ==
    IF EndsWithPeriodSpace(text) THEN ReplacePeriodSpace(text) ELSE text

\* lines 299-309: the morphological parameters of one retained token;
\* Raised when the converter raises
Classify(mapping, text, analysis) ==
    IF IsAlpha(text)
    THEN IF analysis # <<>>
         THEN LET lemma == analysis[1].lex
                  gram_info == analysis[1].gr
                  pos == MystemConvertPos(mapping, gram_info)
                  tags == MystemConvertMorphologicalTags(mapping, gram_info)
              IN  IF tags.err # "none" THEN Raised(tags.err)
                  ELSE Returned(MorphologicalTokenDTO(lemma, pos, tags.val))
         ELSE Returned(MorphologicalTokenDTO(text, <<"X">>, <<>>))
    ELSE IF IsDigit(text)
         THEN Returned(MorphologicalTokenDTO(text, <<"NUM">>, <<>>))
         ELSE Returned(MorphologicalTokenDTO(text, <<"PUNCT">>, <<>>))

\* the inner loop of _process over one sentence's analyzer tokens, from the
\* value sentence_counter has before the first of them
RECURSIVE ProcessTokens(_, _, _)
ProcessTokens(mapping, mystem_analysis, sentence_counter) ==
    IF mystem_analysis = <<>> THEN Returned(<<>>)
    ELSE LET token == Head(mystem_analysis)
         IN  IF ~WordRegexMatch(token.text)
             THEN ProcessTokens(mapping, Tail(mystem_analysis), sentence_counter)
             ELSE LET text == FixedText(token.text)
                      params == Classify(mapping, text, token.analysis)
                  IN  IF params.err # "none" THEN Raised(params.err)
                      ELSE LET conllu_token ==
                                   ConlluToken(text, sentence_counter + 1, params.val)
                               rest == ProcessTokens(mapping, Tail(mystem_analysis),
                                                     sentence_counter + 1)
                           IN  IF rest.err # "none" THEN rest
                               ELSE Returned(<<conllu_token>> \o rest.val)

\* a faulty variant of ProcessSentences: set_position is given counter, which line 318
\* leaves at the previous sentence's count, instead of sentence_counter
RECURSIVE ProcessSentencesCarry(_, _, _, _)
ProcessSentencesCarry(mapping, split, sentence_idx, counter) ==
    IF split = <<>> THEN Returned(<<>>)
    ELSE LET sentence == Head(split)
             conllu_tokens == ProcessTokens(mapping, sentence.analysis, counter)
         IN  IF conllu_tokens.err # "none" THEN Raised(conllu_tokens.err)
             ELSE LET sentence_obj ==
                          ConlluSentence(sentence_idx, sentence.text, conllu_tokens.val)
                      rest == ProcessSentencesCarry(mapping, Tail(split), sentence_idx + 1,
                                                    Len(conllu_tokens.val))
                  IN  IF rest.err # "none" THEN rest
                      ELSE Returned(<<sentence_obj>> \o rest.val)

ProcessSentencesByCounter(mapping, split, sentence_idx) ==
    ProcessSentencesCarry(mapping, split, sentence_idx, 0)

\* the outer loop of _process, from sentence index sentence_idx
RECURSIVE ProcessSentences(_, _, _)
ProcessSentences(mapping, split, sentence_idx) ==
    IF split = <<>> THEN Returned(<<>>)
    ELSE LET sentence == Head(split)
             conllu_tokens == ProcessTokens(mapping, sentence.analysis, 0)
         IN  IF conllu_tokens.err # "none" THEN Raised(conllu_tokens.err)
             ELSE LET sentence_obj ==
                          ConlluSentence(sentence_idx, sentence.text, conllu_tokens.val)
                      rest == ProcessSentences(mapping, Tail(split), sentence_idx + 1)
                  IN  IF rest.err # "none" THEN rest
                      ELSE Returned(<<sentence_obj>> \o rest.val)

\* _process(text): text is given as the sentences split_by_sentence returns,
\* each with the token list the analyzer returns for it
Process(mapping, split) == ProcessSentences(mapping, split, 0)

(***************************************************************************)
(* The corpus directory and the run of main().                             *)
(*                                                                         *)
(* The files follow the naming convention N_raw.txt and N_meta.json, and   *)
(* the directory holds at most one raw file and one metadata file per      *)
(* article id N; a file is absent, empty (zero bytes) or filled.  The      *)
(* content of a filled raw file of article n is TextOf(n), given as the    *)
(* sentences split_by_sentence returns with the analyzer's tokens.         *)
(***************************************************************************)
VARIABLES
    pathKind,    \* "missing", "file" or "dir": what path_to_raw_txt_data is
    rawFiles,    \* id -> "absent" | "empty" | "filled": the *_raw.txt files
    metaFiles,   \* id -> "absent" | "empty" | "filled": the *_meta.json files
    pc,          \* the position of main()
    err,         \* the exception that ended main(): [kind, msg, stage]
    storage,     \* CorpusManager._storage in insertion order: <<[id, text]>>
    scanLeft,    \* the raw files the glob of _scan_dataset has yet to yield
    runIdx,      \* run(): the index in storage of the article being processed
    sentences,   \* id -> the conllu sentences set_conllu_sentences attached
    written,     \* the artifacts written so far, in order: <<[id, kind]>>
    call,        \* the latest direct call of a converter or model method
    ret          \* what that call returned or raised

vars == <<pathKind, rawFiles, metaFiles, pc, err, storage, scanLeft, runIdx,
          sentences, written, call, ret>>

Ids == 1..MaxId
FileStates == {"absent", "empty", "filled"}
NoError == [kind |-> "none", msg |-> "", stage |-> ""]
NoCall == [fn |-> "none", mapping |-> <<>>, arg |-> <<>>]

\* analyzer tokens of the sample texts
Tok(text, analysis) == [text |-> text, analysis |-> analysis]
Cand(lex, gr) == [lex |-> lex, gr |-> gr]
\* a noun with the analysis S,од=(им,ед|род,мн)
tNoun ==
    Tok(<<"cyr_K", "cyr_o", "cyr_d">>,
        <<Cand(W("kod"), pS \o <<",">> \o cOd \o <<"=", "(">> \o cIm \o <<",">> \o cEd
                         \o <<"|">> \o cRod \o <<",">> \o cMn \o <<")">>)>>)
\* a verb with two candidate analyses
tVerb ==
    Tok(<<"cyr_e", "cyr_d", "cyr_i", "cyr_m">>,
        <<Cand(W("est"), pV \o <<",">> \o cProsh \o <<",">> \o cMn),
          Cand(W("edim"), pS \o <<",">> \o cIm)>>)
\* an adverb: its POS has no entry in pos_specific_categories
tAdverb == Tok(<<"cyr_r", "cyr_e", "cyr_d", "cyr_o">>, <<Cand(W("redko"), pADV \o <<"=">>)>>)
\* a word with an analysis whose POS code no table lists
tUnlisted == Tok(<<"cyr_o", "cyr_n">>, <<Cand(W("on"), pQ \o <<",">> \o cIm)>>)
\* a word the analyzer has no candidate for
tUnknown == Tok(<<"cyr_m", CyrYo, "cyr_d">>, <<>>)
tNumber == Tok(<<"2", "0", "2", "4">>, <<>>)
\* digits for which the analyzer nevertheless reports a candidate
tNumberAnalysed == Tok(<<"4", "2">>, <<Cand(W("sorok"), pNUM \o <<"=">> \o cIm)>>)
tMixed == Tok(<<"cyr_d", "2">>, <<>>)
tUnderscore == Tok(<<"_">>, <<>>)
tSpace == Tok(<<" ">>, <<>>)
tComma == Tok(<<",", " ">>, <<>>)
tPeriod == Tok(<<".">>, <<>>)
tPeriodSpace == Tok(<<".", " ">>, <<>>)
tNewline == Tok(<<"\n">>, <<>>)

\* the concatenation of the token texts
RECURSIVE ConcatTexts(_)
ConcatTexts(tokens) ==
    IF tokens = <<>> THEN <<>> ELSE Head(tokens).text \o ConcatTexts(Tail(tokens))

\* a sentence of the segmentation with the analyzer's output for it: the
\* analyzer's tokens cover the sentence text and end with a newline token
Sent(tokens) == [text |-> ConcatTexts(tokens), analysis |-> tokens \o <<tNewline>>]

TextPlain == <<Sent(<<tNoun, tSpace, tVerb, tPeriod>>), Sent(<<tNoun, tPeriod>>)>>
TextNumbers == <<Sent(<<tUnknown, tComma, tNumber, tPeriodSpace>>)>>
TextAdverb == <<Sent(<<tNoun, tPeriod>>), Sent(<<tAdverb, tSpace, tVerb>>)>>

\* the content of the filled raw file of article id
TextOf(id) ==
    IF id % 3 = 0 THEN TextAdverb
    ELSE IF id % 2 = 1 THEN TextPlain ELSE TextNumbers

\* the table MorphologicalAnalysisPipeline.__init__ loads
PipelineMapping == MystemTableA

(***************************************************************************)
(* CorpusManager                                                           *)
(***************************************************************************)
\* the ids of the files a glob matches
FileIds(files) == {i \in Ids : files[i] # "absent"}

\* sorted(ids)
RECURSIVE SortedIds(_)
SortedIds(ids) ==
    IF ids = {} THEN <<>>
    ELSE LET least == CHOOSE i \in ids : \A j \in ids : i <= j
         IN  <<least>> \o SortedIds(ids \ {least})

\* a faulty variant of NotSequential: the gap test off by one
NotSequentialLoose(ind) == \E k \in 1..(Len(ind) - 1) : ind[k + 1] - ind[k] > 2

\* the loop over zip(ind, ind[1:]): some id2 - id1 > 1
NotSequential(ind) == \E k \in 1..(Len(ind) - 1) : ind[k + 1] - ind[k] > 1

\* a faulty variant of CountsDiffer: the comparison one-sided
CountsDifferOneSided(meta, raw) == Cardinality(FileIds(meta)) > Cardinality(FileIds(raw))

\* len(meta_files) != len(raw_files)
CountsDiffer(meta, raw) == Cardinality(FileIds(meta)) # Cardinality(FileIds(raw))

\* a faulty variant of SomeEmpty: the size test never true
SomeEmptyNever(files) == \E i \in Ids : files[i] = "empty" /\ files[i] = "filled"

\* some file of the glob has st_size == 0
SomeEmpty(files) == \E i \in Ids : files[i] = "empty"

\* _validate_dataset: the exception it raises, NoError when it returns
ValidateDataset(kind, raw, meta) ==
    LET raw_ind == SortedIds(FileIds(raw))
        meta_ind == SortedIds(FileIds(meta))
        E(k, m) == [kind |-> k, msg |-> m, stage |-> "validate"]
    IN  IF kind = "missing" THEN E("FileNotFoundError", "No such file or directory")
        ELSE IF kind # "dir" THEN E("NotADirectoryError", "Not a directory")
        ELSE IF CountsDiffer(meta, raw)
             THEN E("InconsistentDatasetError", "Number of meta and raw files is not equal")
        ELSE IF NotSequential(raw_ind)
             THEN E("InconsistentDatasetError", "Article IDs are not sequential")
        ELSE IF NotSequential(meta_ind)
             THEN E("InconsistentDatasetError", "Article IDs in meta data are not sequential")
        ELSE IF SomeEmpty(raw) THEN E("InconsistentDatasetError", "")
        ELSE IF SomeEmpty(meta) THEN E("InconsistentDatasetError", "")
        ELSE NoError

\* from_raw(path): the article read from a raw file
FromRaw(id) == [id |-> id, text |-> TextOf(id)]

\* self._storage[file_id] = article, on the insertion-ordered dict
StoragePut(store, article) ==
    IF \E k \in DOMAIN store : store[k].id = article.id
    THEN [k \in DOMAIN store |-> IF store[k].id = article.id THEN article ELSE store[k]]
    ELSE Append(store, article)

\* a faulty variant of Validate: the exception of the validation is recorded but does
\* not stop the constructor
ValidateSwallowed ==
    /\ pc = "main"
    /\ err' = ValidateDataset(pathKind, rawFiles, metaFiles)
    /\ pc' = "scan"
    /\ scanLeft' = FileIds(rawFiles)
    /\ storage' = <<>>
    /\ UNCHANGED <<pathKind, rawFiles, metaFiles, runIdx, sentences, written, call, ret>>

\* CorpusManager.__init__, lines 42-44: validation, then the empty storage
Validate ==
    /\ pc = "main"
    /\ LET e == ValidateDataset(pathKind, rawFiles, metaFiles)
       IN  IF e.kind # "none"
           THEN /\ err' = e
                /\ pc' = "raised"
                /\ UNCHANGED scanLeft
           ELSE /\ pc' = "scan"
                /\ scanLeft' = FileIds(rawFiles)
                /\ UNCHANGED err
    /\ storage' = <<>>
    /\ UNCHANGED <<pathKind, rawFiles, metaFiles, runIdx, sentences, written, call, ret>>

\* one iteration of the loop of _scan_dataset; the glob yields the files in
\* an order of its own
ScanEntry ==
    /\ pc = "scan"
    /\ \E id \in scanLeft :
          /\ storage' = StoragePut(storage, FromRaw(id))
          /\ scanLeft' = scanLeft \ {id}
    /\ UNCHANGED <<pathKind, rawFiles, metaFiles, pc, err, runIdx, sentences, written,
                   call, ret>>

\* the end of _scan_dataset, MorphologicalAnalysisPipeline(manager) and the
\* entry of run()
StartRun ==
    /\ pc = "scan"
    /\ scanLeft = {}
    /\ pc' = "process"
    /\ runIdx' = 1
    /\ UNCHANGED <<pathKind, rawFiles, metaFiles, err, storage, scanLeft, sentences,
                   written, call, ret>>

(***************************************************************************)
(* MorphologicalAnalysisPipeline.run                                       *)
(***************************************************************************)
\* the article the loop of run() is at
CurrentArticle == storage[runIdx]

\* article.set_conllu_sentences(self._process(article.text))
RunProcess ==
    /\ pc = "process"
    /\ runIdx <= Len(storage)
    /\ LET r == Process(PipelineMapping, CurrentArticle.text)
       IN  IF r.err # "none"
           THEN /\ err' = [kind |-> r.err, msg |-> "", stage |-> "run"]
                /\ pc' = "raised"
                /\ UNCHANGED sentences
           ELSE /\ sentences' = [sentences EXCEPT ![CurrentArticle.id] = r.val]
                /\ pc' = "to_cleaned"
                /\ UNCHANGED err
    /\ UNCHANGED <<pathKind, rawFiles, metaFiles, storage, scanLeft, runIdx, written,
                   call, ret>>

\* a writer of core_utils.article.io called on the current article
WriteArtifact(at, kind, next) ==
    /\ pc = at
    /\ written' = Append(written, [id |-> CurrentArticle.id, kind |-> kind])
    /\ pc' = next
    /\ UNCHANGED <<pathKind, rawFiles, metaFiles, err, storage, scanLeft, sentences,
                   call, ret>>

\* to_cleaned(article)
RunToCleaned ==
    /\ WriteArtifact("to_cleaned", "cleaned", "to_conllu_bare")
    /\ UNCHANGED runIdx

\* to_conllu(article, include_morphological_tags=False, ...)
RunToConlluBare ==
    /\ WriteArtifact("to_conllu_bare", "conllu_bare", "to_conllu_tagged")
    /\ UNCHANGED runIdx

\* to_conllu(article, include_morphological_tags=True, ...) and the step of
\* the loop to the next article
RunToConlluTagged ==
    /\ WriteArtifact("to_conllu_tagged", "conllu_tagged", "process")
    /\ runIdx' = runIdx + 1

\* run() and main() return
Finish ==
    /\ pc = "process"
    /\ runIdx > Len(storage)
    /\ pc' = "done"
    /\ UNCHANGED <<pathKind, rawFiles, metaFiles, err, storage, scanLeft, runIdx,
                   sentences, written, call, ret>>

\* the states main() can start in
Init ==
    /\ \/ /\ pathKind = "dir"
          /\ rawFiles \in [Ids -> FileStates]
          /\ metaFiles \in [Ids -> FileStates]
       \/ /\ pathKind \in {"missing", "file"}
          /\ rawFiles = [i \in Ids |-> "absent"]
          /\ metaFiles = [i \in Ids |-> "absent"]
    /\ pc = "main"
    /\ err = NoError
    /\ storage = <<>>
    /\ scanLeft = {}
    /\ runIdx = 0
    /\ sentences = [i \in Ids |-> <<>>]
    /\ written = <<>>
    /\ call = NoCall
    /\ ret = Returned(<<>>)

Next ==
    \/ Validate
    \/ ScanEntry
    \/ StartRun
    \/ RunProcess
    \/ RunToCleaned
    \/ RunToConlluBare
    \/ RunToConlluTagged
    \/ Finish

Spec == Init /\ [][Next]_vars

(***************************************************************************)
(* Direct calls of the converters, of _process and of get_conllu_text      *)
(* (specification SpecCalls): each action is one call on inputs drawn      *)
(* from the bounded sets below; call and ret record it.  A behaviour makes *)
(* one call of a converter, or one call of _process followed by the        *)
(* serialization of one of the sentences it built.                         *)
(***************************************************************************)
\* the sequences over a set of length at most n
SeqsUpTo(S, n) == UNION {[1..k -> S] : k \in 0..n}

\* grammeme codes a generated tag string may carry
CodePool == {cIm, cRod, cEd, cZhen, cOd, cProsh, cMyod}
\* what a generated tag string may start with: no POS code, a listed one,
\* an unlisted one
PosPool == {<<>>, pS, pV, pA, pNUM, pSPRO, pADV, pQ}

\* ,code,code ... for a list of codes
RECURSIVE CommaCodes(_)
CommaCodes(codes) ==
    IF codes = <<>> THEN <<>>
    ELSE <<",">> \o Head(codes) \o CommaCodes(Tail(codes))

\* a tag string without alternatives: S,code,code
PlainTags(pos, codes) == pos \o CommaCodes(codes)

\* a tag string whose last code opens a parenthesised alternation:
\* S,code=(code|род,мн)
AlternativeTags(pos, codes) ==
    IF codes = <<>> THEN pos \o <<"=">>
    ELSE pos \o CommaCodes(SubSeq(codes, 1, Len(codes) - 1))
         \o <<"=", "(">> \o codes[Len(codes)] \o <<"|">> \o cRod \o <<",">> \o cMn \o <<")">>

MystemTagInputs ==
    {PlainTags(p, c) : p \in PosPool, c \in SeqsUpTo(CodePool, MaxFeats)}
    \cup {AlternativeTags(p, c) : p \in PosPool, c \in SeqsUpTo(CodePool, MaxFeats)}

\* OpenCorpora tag objects: an attribute that is None or missing is NoneValue
OcTagInputs ==
    [POS : {NoneValue, W("NOUN"), W("ADVB")},
     case : {NoneValue, W("nomn"), W("loct")},
     number : {NoneValue, W("sing"), W("plur")},
     gender : {NoneValue, W("femn")},
     animacy : {NoneValue, W("anim")}]

\* the tokens of the generated sentences of several tokens
CorePool == {tNoun, tSpace, tPeriodSpace}
\* the tokens of the generated one-sentence articles
FullPool ==
    {tNoun, tVerb, tAdverb, tUnlisted, tUnknown, tNumber, tNumberAnalysed, tMixed,
     tUnderscore, tSpace, tComma, tPeriod, tPeriodSpace}

CoreSentences == {Sent(t) : t \in SeqsUpTo(CorePool, MaxToks)}
\* articles of up to MaxSents sentences of up to MaxToks tokens
CoreArticles == SeqsUpTo(CoreSentences, MaxSents)
\* articles of one sentence of one or two tokens of any shape
ShapeArticles ==
    {<<Sent(<<t>>)>> : t \in FullPool} \cup {<<Sent(<<t, u>>)>> : t, u \in FullPool}
Articles == CoreArticles \cup ShapeArticles

Call(fn, mapping, arg) == [fn |-> fn, mapping |-> mapping, arg |-> arg]

MainIdle ==
    UNCHANGED <<pathKind, rawFiles, metaFiles, pc, err, storage, scanLeft, runIdx,
                sentences, written>>

\* MystemTagConverter(path).convert_pos(tags)
CallMystemConvertPos ==
    /\ call.fn = "none"
    /\ \E m \in MystemTables, tags \in MystemTagInputs :
          /\ call' = Call("mystem.convert_pos", m, tags)
          /\ ret' = Returned(MystemConvertPos(m, tags))
    /\ MainIdle

\* MystemTagConverter(path).convert_morphological_tags(tags)
CallMystemConvertTags ==
    /\ call.fn = "none"
    /\ \E m \in MystemTables, tags \in MystemTagInputs :
          /\ call' = Call("mystem.convert_morphological_tags", m, tags)
          /\ ret' = MystemConvertMorphologicalTags(m, tags)
    /\ MainIdle

\* OpenCorporaTagConverter(path).convert_pos(tags)
CallOcConvertPos ==
    /\ call.fn = "none"
    /\ \E m \in OcTables, tags \in OcTagInputs :
          /\ call' = Call("opencorpora.convert_pos", m, tags)
          /\ ret' = OcConvertPos(m, tags)
    /\ MainIdle

\* OpenCorporaTagConverter(path).convert_morphological_tags(tags)
CallOcConvertTags ==
    /\ call.fn = "none"
    /\ \E m \in OcTables, tags \in OcTagInputs :
          /\ call' = Call("opencorpora.convert_morphological_tags", m, tags)
          /\ ret' = OcConvertMorphologicalTags(m, tags)
    /\ MainIdle

\* MorphologicalAnalysisPipeline._process(text)
CallProcess ==
    /\ call.fn = "none"
    /\ \E m \in MystemTables, split \in Articles :
          /\ call' = Call("_process", m, split)
          /\ ret' = Process(m, split)
    /\ MainIdle

\* sentence.get_conllu_text(False) and sentence.get_conllu_text(True) on a
\* sentence _process built, as the two to_conllu calls of run() make them
CallGetConlluText ==
    /\ call.fn = "_process"
    /\ ret.err = "none"
    /\ \E i \in DOMAIN ret.val :
          /\ call' = Call("get_conllu_text", <<>>, ret.val[i])
          /\ ret' = Returned([bare |-> SentenceConlluText(ret.val[i], FALSE),
                              tagged |-> SentenceConlluText(ret.val[i], TRUE)])
    /\ MainIdle

InitCalls ==
    /\ pathKind = "dir"
    /\ rawFiles = [i \in Ids |-> "absent"]
    /\ metaFiles = [i \in Ids |-> "absent"]
    /\ pc = "calls"
    /\ err = NoError
    /\ storage = <<>>
    /\ scanLeft = {}
    /\ runIdx = 0
    /\ sentences = [i \in Ids |-> <<>>]
    /\ written = <<>>
    /\ call = NoCall
    /\ ret = Returned(<<>>)

NextCalls ==
    \/ CallMystemConvertPos
    \/ CallMystemConvertTags
    \/ CallOcConvertPos
    \/ CallOcConvertTags
    \/ CallProcess
    \/ CallGetConlluText

SpecCalls == InitCalls /\ [][NextCalls]_vars

(***************************************************************************)
(* Properties of the corpus validation (specification Spec).               *)
(***************************************************************************)
RawIds == {i \in Ids : rawFiles[i] # "absent"}
MetaIds == {i \in Ids : metaFiles[i] # "absent"}
\* two ids of the set, consecutive in sorted order, differ by more than 1
HasGap(ids) ==
    \E a, b \in ids : b - a > 1 /\ ~\E c \in ids : a < c /\ c < b
SequentialMessages ==
    {"Article IDs are not sequential", "Article IDs in meta data are not sequential"}
ValidationOver == pc # "main"
NothingAnnotated ==
    /\ storage = <<>>
    /\ written = <<>>
    /\ \A i \in Ids : sentences[i] = <<>>

\* C1: when the validation of the corpus raises, no article is ever placed
\* in the storage, no sentence is attached to an article and no artifact is
\* written; loading and annotation only happen after a validation that
\* returned.
C1_ValidationBeforeLoading ==
    /\ err.stage = "validate" => NothingAnnotated
    /\ ~NothingAnnotated => ValidationOver /\ err.stage # "validate"

\* C1 witness: the validation raised on a directory that holds filled raw
\* files, and main() has ended.
C1_Witness ==
    /\ pc = "raised"
    /\ err.kind = "InconsistentDatasetError"
    /\ \E i \in Ids : rawFiles[i] = "filled"

\* C2: on a directory with as many raw as metadata files, the validation
\* raises InconsistentDatasetError whenever the sorted raw ids or the sorted
\* metadata ids have two consecutive values more than 1 apart, and it does
\* not raise for the id rule when no such pair exists.
C2_IdGapRejected ==
    (ValidationOver /\ pathKind = "dir" /\ Cardinality(RawIds) = Cardinality(MetaIds)) =>
        /\ (HasGap(RawIds) \/ HasGap(MetaIds)) =>
               err.kind = "InconsistentDatasetError" /\ err.msg \in SequentialMessages
        /\ ~(HasGap(RawIds) \/ HasGap(MetaIds)) => err.msg \notin SequentialMessages

\* C2 witness: raw files 1,2,4 and metadata files 1,2,3, all filled, were
\* rejected for the id rule.
C2_Witness ==
    /\ pc = "raised"
    /\ RawIds = {1, 2, 4}
    /\ MetaIds = {1, 2, 3}
    /\ \A i \in Ids : rawFiles[i] # "empty" /\ metaFiles[i] # "empty"
    /\ err.msg = "Article IDs are not sequential"

\* C3: on a directory whose number of metadata files differs from its number
\* of raw files the construction raises InconsistentDatasetError, whatever
\* the ids and sizes of the files.
C3_CountMismatchRejected ==
    (ValidationOver /\ pathKind = "dir" /\ Cardinality(RawIds) # Cardinality(MetaIds)) =>
        err.kind = "InconsistentDatasetError"

\* C3 witness: three raw files and two metadata files, contiguous and
\* filled, were rejected.
C3_Witness ==
    /\ pc = "raised"
    /\ RawIds = {1, 2, 3}
    /\ MetaIds = {1, 2}
    /\ \A i \in Ids : rawFiles[i] # "empty" /\ metaFiles[i] # "empty"
    /\ err.kind = "InconsistentDatasetError"

\* C4: on a directory with a zero-byte raw file or a zero-byte metadata file
\* the construction raises InconsistentDatasetError; in every corpus that
\* was built, every raw file and every metadata file is non-empty.
C4_EmptyFileRejected ==
    /\ (ValidationOver /\ pathKind = "dir"
          /\ \E i \in Ids : rawFiles[i] = "empty" \/ metaFiles[i] = "empty")
       => err.kind = "InconsistentDatasetError"
    /\ (ValidationOver /\ err.stage # "validate")
       => \A i \in Ids : rawFiles[i] # "empty" /\ metaFiles[i] # "empty"

\* C4 witness: a directory with paired, contiguous files, of which only a
\* metadata file is empty, was rejected.
C4_Witness ==
    /\ pc = "raised"
    /\ RawIds = {1, 2}
    /\ MetaIds = {1, 2}
    /\ rawFiles[1] = "filled" /\ rawFiles[2] = "filled"
    /\ metaFiles[1] = "filled" /\ metaFiles[2] = "empty"
    /\ err.kind = "InconsistentDatasetError"

\* C5: the construction on a missing path, or on an existing directory with
\* no raw and no metadata file, raises an error instead of returning a
\* manager with an empty storage.
C5_EmptyOrMissingRejected ==
    (ValidationOver /\ (pathKind = "missing"
                        \/ (pathKind = "dir" /\ RawIds = {} /\ MetaIds = {})))
    => err.kind # "none"

(***************************************************************************)
(* Properties of _process, of the serialization and of the converters      *)
(* (specification SpecCalls).                                              *)
(***************************************************************************)
\* the pieces of s between the occurrences of the atom sep
RECURSIVE SplitOn(_, _)
SplitOn(s, sep) ==
    IF \A i \in DOMAIN s : s[i] # sep THEN <<s>>
    ELSE LET k == CHOOSE i \in DOMAIN s : s[i] = sep /\ \A j \in 1..(i - 1) : s[j] # sep
         IN  <<SubSeq(s, 1, k - 1)>> \o SplitOn(SubSeq(s, k + 1, Len(s)), sep)

ProcessReturned == call.fn = "_process" /\ ret.err = "none"
\* the analyzer tokens of a sentence that the filter of line 291 retains
RetainedTokens(sentence) ==
    SelectSeq(sentence.analysis,
              LAMBDA t : t.text # <<>> /\ (IsWordChar(t.text[1]) \/ t.text[1] = "."))

\* C6: in every sentence _process built, the k retained tokens carry the
\* positions 1, 2, ..., k in token order, whatever the earlier sentences
\* held and however many analyzer tokens were discarded.
C6_PositionsContiguous ==
    ProcessReturned =>
        \A i \in DOMAIN ret.val :
            /\ Len(ret.val[i].tokens) = Len(RetainedTokens(call.arg[i]))
            /\ \A k \in DOMAIN ret.val[i].tokens : ret.val[i].tokens[k].position = k

\* C6 witness: _process built two sentences; the first has a discarded
\* token before its one retained token, the second has two retained tokens
\* and a discarded one, and its second token has position 2.
C6_Witness ==
    /\ ProcessReturned
    /\ Len(ret.val) = 2
    /\ Len(ret.val[1].tokens) = 1
    /\ call.arg[1].analysis[1].text = <<" ">>
    /\ Len(ret.val[2].tokens) = 2
    /\ Len(call.arg[2].analysis) > 2
    /\ ret.val[2].tokens[2].position = 2

SerializationReturned == call.fn = "get_conllu_text"
\* the token lines of a sentence block: the lines after the two comment
\* lines and before the empty piece that follows the last line break
TokenLinesOf(block) ==
    LET lines == SplitOn(block, "\n")
    IN  SubSeq(lines, 3, Len(lines) - 1)

\* C7: the text of a sentence without morphological tags equals the text
\* with them except in column 6 of the token lines, which is "_" in the
\* bare text and, in the tagged text, the feature string of the token when
\* that is non-empty and "_" otherwise.
C7_BareEqualsTaggedButFeatures ==
    SerializationReturned =>
        LET bare == SplitOn(ret.val.bare, "\n")
            tagged == SplitOn(ret.val.tagged, "\n")
            tokens == call.arg.tokens
        IN  /\ Len(bare) = Len(tagged)
            /\ \A n \in {1, 2, Len(bare)} : bare[n] = tagged[n]
            /\ tokens = <<>> => ret.val.bare = ret.val.tagged
            /\ tokens # <<>> => Len(TokenLinesOf(ret.val.bare)) = Len(tokens)
            /\ tokens # <<>> =>
                 \A k \in DOMAIN tokens :
                    LET b == SplitOn(TokenLinesOf(ret.val.bare)[k], "\t")
                        t == SplitOn(TokenLinesOf(ret.val.tagged)[k], "\t")
                    IN  /\ Len(b) = 10 /\ Len(t) = 10
                        /\ \A c \in (1..10) \ {6} : b[c] = t[c]
                        /\ b[6] = <<"_">>
                        /\ t[6] = IF tokens[k].params.tags # <<>>
                                  THEN tokens[k].params.tags ELSE <<"_">>

\* C7 witness: a sentence with a token that has features and one that has
\* none was serialized, and the two texts differ.
C7_Witness ==
    /\ SerializationReturned
    /\ Len(call.arg.tokens) = 2
    /\ call.arg.tokens[1].params.tags # <<>>
    /\ call.arg.tokens[2].params.tags = <<>>
    /\ ret.val.bare # ret.val.tagged

\* the class the shape of a built token and its analyzer token ask for
ClassOfShape(mapping, built, source) ==
    LET all_digits == built.text # <<>> /\ \A i \in DOMAIN built.text : built.text[i] \in Digits
        alphabetic == built.text # <<>> /\ \A i \in DOMAIN built.text : IsAlphaChar(built.text[i])
        surface(pos) == [lemma |-> built.text, pos |-> <<pos>>, tags |-> <<>>]
    IN  IF all_digits THEN built.params = surface("NUM")
        ELSE IF alphabetic /\ source.analysis # <<>>
        THEN /\ built.params.lemma = source.analysis[1].lex
             /\ built.params.pos = MystemConvertPos(mapping, source.analysis[1].gr)
             /\ built.params.tags =
                    MystemConvertMorphologicalTags(mapping, source.analysis[1].gr).val
        ELSE IF alphabetic THEN built.params = surface("X")
        ELSE built.params = surface("PUNCT")

\* the tokens _process built have the class of their shape
BuiltTokensClassified ==
    ProcessReturned =>
        \A i \in DOMAIN ret.val :
            /\ Len(ret.val[i].tokens) = Len(RetainedTokens(call.arg[i]))
            /\ \A k \in DOMAIN ret.val[i].tokens :
                  ClassOfShape(call.mapping, ret.val[i].tokens[k],
                               RetainedTokens(call.arg[i])[k])

\* C8: every retained token of every text gets the morphology class of its
\* shape: digits get (text, NUM, no features) whatever the analyzer says, an
\* alphabetic token gets the first candidate's lemma and converted POS and
\* features, or (text, X, no features) without a candidate, and any other
\* token gets (text, PUNCT, no features).
C8_EveryTokenClassified ==
    call.fn = "_process" => ret.err = "none" /\ BuiltTokensClassified

\* the parts of speech pos_specific_categories has an entry for
ListedPos == {W("NOUN"), W("VERB"), W("ADJ"), W("NUM"), W("PRON")}
MystemTagsCalled == call.fn = "mystem.convert_morphological_tags"

\* C9: convert_morphological_tags returns a feature string, and does not
\* raise, for every tag string whose converted POS is outside NOUN, VERB,
\* ADJ, NUM, PRON (the empty POS of an unlisted code included).
C9_NoRaiseOnUnlistedPos ==
    (MystemTagsCalled /\ MystemConvertPos(call.mapping, call.arg) \notin ListedPos)
    => ret.err = "none"

\* the categories in the order of their names
CategoryOrder == <<"Animacy", "Case", "Gender", "Number", "Tense">>
\* the categories the claim lists for a part of speech
CategoriesOfPos(pos) ==
    CASE pos = W("NOUN") -> {"Case", "Number", "Gender", "Animacy"}
      [] pos = W("VERB") -> {"Tense", "Number", "Gender"}
      [] pos = W("ADJ") -> {"Case", "Number", "Gender"}
      [] pos = W("NUM") -> {"Case", "Number", "Gender"}
      [] pos = W("PRON") -> {"Case", "Number", "Gender", "Animacy"}
      [] OTHER -> {}
\* the index of an element in a sequence without repetitions, 0 when absent
IndexIn(order, x) ==
    IF \E i \in DOMAIN order : order[i] = x
    THEN CHOOSE i \in DOMAIN order : order[i] = x ELSE 0
\* every entry is name=value with one value atom, and the names are in the
\* places of order, each later than the one before
EntriesFollow(entries, order) ==
    /\ \A n \in DOMAIN entries :
          /\ Len(entries[n]) = 3
          /\ entries[n][2] = "="
          /\ IndexIn(order, entries[n][1]) > 0
    /\ \A n \in 1..(Len(entries) - 1) :
          IndexIn(order, entries[n][1]) < IndexIn(order, entries[n + 1][1])

\* C10: a non-empty feature string is a |-joined list of Category=Value
\* entries, no category twice; the Mystem converter gives the categories in
\* sorted order and only those of the token's POS; the OpenCorpora converter
\* gives the attributes in the order case, number, gender, animacy, one
\* entry for each attribute that is present and mapped and none for others.
C10_FeatureStringShape ==
    /\ (MystemTagsCalled /\ ret.err = "none" /\ ret.val # <<>>) =>
          LET entries == SplitOn(ret.val, "|")
          IN  /\ EntriesFollow(entries, CategoryOrder)
              /\ \A n \in DOMAIN entries :
                    entries[n][1] \in
                        CategoriesOfPos(MystemConvertPos(call.mapping, call.arg))
    /\ (call.fn = "opencorpora.convert_morphological_tags") =>
          LET entries == IF ret.val = <<>> THEN <<>> ELSE SplitOn(ret.val, "|")
              attrs == <<"case", "number", "gender", "animacy">>
          IN  /\ ret.err = "none"
              /\ EntriesFollow(entries, attrs)
              /\ \A a \in {"case", "number", "gender", "animacy"} :
                    (\E n \in DOMAIN entries : entries[n][1] = a)
                    <=> /\ call.arg[a] # <<>>
                        /\ a \in DOMAIN call.mapping
                        /\ call.arg[a] \in DOMAIN call.mapping[a]

\* C10 witness: the Mystem converter returned a feature string of three
\* entries for a noun whose tag string lists the codes in another order.
C10_Witness ==
    /\ MystemTagsCalled
    /\ ret.err = "none"
    /\ call.arg = pS \o <<",">> \o cEd \o <<",">> \o cOd
    /\ Len(SplitOn(ret.val, "|")) >= 2

(***************************************************************************)
(* Properties of the sentence sequence and of the sentence block           *)
(* (specification SpecCalls).                                              *)
(***************************************************************************)
\* the sentences _process returned follow the segmentation: one sentence
\* object per segment, in order, the i-th (from 0) with position i
SentencesFollowSegments ==
    ProcessReturned =>
        /\ Len(ret.val) = Len(call.arg)
        /\ \A i \in DOMAIN ret.val :
              /\ ret.val[i].position = i - 1
              /\ ret.val[i].text = call.arg[i].text

\* C11: for every article text _process returns one sentence object per
\* sentence of the segmentation, in the same order, the i-th (from 0)
\* carrying position i, also for a sentence all of whose tokens are
\* filtered out.
C11_OneSentencePerSegment ==
    call.fn = "_process" => ret.err = "none" /\ SentencesFollowSegments

\* the ten columns the format asks for on the line of a token
ColumnsOf(token, include_morphological_tags) ==
    <<StrOfInt(token.position), token.text, token.params.lemma, token.params.pos,
      <<"_">>,
      IF include_morphological_tags /\ token.params.tags # <<>>
      THEN token.params.tags ELSE <<"_">>,
      <<"0">>, <<"root">>, <<"_">>, <<"_">> >>

\* the text ends with an empty line: two line breaks in a row
EndsWithBlankLine(block) ==
    /\ Len(block) >= 2
    /\ block[Len(block)] = "\n"
    /\ block[Len(block) - 1] = "\n"

\* the lines of a block are the two comment lines and one line of ten
\* columns per token, in token order
BlockLinesAsSpecified(block, sentence, include_morphological_tags) ==
    LET lines == SplitOn(block, "\n")
        tokens == sentence.tokens
    IN  /\ Len(lines) >= 3
        /\ lines[1] = <<"#", " ", "sent_id", " ", "=", " ">> \o StrOfInt(sentence.position)
        /\ lines[2] = <<"#", " ", "text", " ", "=", " ">> \o sentence.text
        /\ lines[Len(lines)] = <<>>
        /\ tokens # <<>> =>
              /\ Len(lines) = Len(tokens) + 3
              /\ \A k \in DOMAIN tokens :
                    SplitOn(lines[k + 2], "\t")
                        = ColumnsOf(tokens[k], include_morphological_tags)
        /\ tokens = <<>> => Len(lines) = 4 /\ lines[3] = <<>>

\* C12 as stated: every sentence block is the sentence-ID comment line, the
\* sentence-text comment line, one line of exactly 10 tab-separated
\* columns per token in token order, and a trailing blank line that
\* terminates it, for every sentence including one with zero tokens.
C12_BlockEndsWithBlankLine ==
    SerializationReturned =>
        /\ BlockLinesAsSpecified(ret.val.bare, call.arg, FALSE)
        /\ BlockLinesAsSpecified(ret.val.tagged, call.arg, TRUE)
        /\ EndsWithBlankLine(ret.val.bare)
        /\ EndsWithBlankLine(ret.val.tagged)

\* C12 amended: every sentence block is the sentence-ID comment line, the
\* sentence-text comment line and one line of exactly 10 tab-separated
\* columns per token in token order, each line closed by one line break;
\* the block ends with a blank line only when the sentence has zero
\* tokens, and with the line break of its last token line otherwise.
C12_BlockShape ==
    SerializationReturned =>
        /\ BlockLinesAsSpecified(ret.val.bare, call.arg, FALSE)
        /\ BlockLinesAsSpecified(ret.val.tagged, call.arg, TRUE)
        /\ EndsWithBlankLine(ret.val.bare) <=> call.arg.tokens = <<>>
        /\ EndsWithBlankLine(ret.val.tagged) <=> call.arg.tokens = <<>>

\* C12 witness: a sentence with two tokens, not the first of its text, was
\* serialized and its block does not end with a blank line.
C12_Witness ==
    /\ SerializationReturned
    /\ Len(call.arg.tokens) = 2
    /\ call.arg.position = 1
    /\ ~EndsWithBlankLine(ret.val.tagged)

\* a sentence with zero tokens was serialized and its block ends with a
\* blank line
EmptySentenceSerialized ==
    /\ SerializationReturned
    /\ call.arg.tokens = <<>>
    /\ EndsWithBlankLine(ret.val.bare)

(***************************************************************************)
(* Properties of the run and of the validated corpus (specification Spec). *)
(***************************************************************************)
\* the artifacts of one article are written together: cleaned text, bare
\* CONLL-U, tagged CONLL-U, with no artifact of another article in between
ArtifactsOneArticleAtATime ==
    \A p \in DOMAIN written :
        /\ written[p].kind = "cleaned" =>
              \A q \in 1..(p - 1) : written[q].id # written[p].id
        /\ written[p].kind = "conllu_bare" =>
              p > 1 /\ written[p - 1] = [id |-> written[p].id, kind |-> "cleaned"]
        /\ written[p].kind = "conllu_tagged" =>
              p > 1 /\ written[p - 1] = [id |-> written[p].id, kind |-> "conllu_bare"]

\* C13: run processes the articles one at a time and in increasing
\* article-ID order: for ids i < j every artifact of article i is written
\* before any artifact of article j, whatever the order in which the raw
\* files were discovered.
C13_IncreasingIdOrder ==
    /\ ArtifactsOneArticleAtATime
    /\ \A p, q \in DOMAIN written :
          written[p].id < written[q].id => p < q

\* C14: whenever CorpusManager construction succeeds, the ids of the raw
\* files are the ids of the metadata files, so every key of the corpus
\* mapping has a metadata file with the same id.
C14_RawAndMetaPaired ==
    (ValidationOver /\ err.stage # "validate") =>
        /\ RawIds = MetaIds
        /\ \A i \in DOMAIN storage : storage[i].id \in MetaIds

=============================================================================
